---- MODULE Spec2Model ----
(***************************************************************************)
(* KV cache and standard-mode attention masks of FlaxLLaMAAttention         *)
(* (MIVRA/mwm/llama.py), for one batch row and one attention head: every    *)
(* cache operation of the source acts uniformly over the batch and head     *)
(* axes.  Arrays are functions over 0..n-1, as in the source's indexing.    *)
(* Spec is the decoding session on the KV cache; SpecSSM is the selective    *)
(* state-space block (S6, MambaBlock) of the same file; SpecData is the      *)
(* random-access dataset PileRandomIODataset (training/src/pl_module.py);    *)
(* SpecStack is the forward call of FlaxLLaMAForCausalLMModule stage by      *)
(* stage, with the per-layer caches of FlaxLLaMABlockCollection, and         *)
(* LLaMAConfig.get_partition_rules.                                          *)
(* Each specification leaves the other subsystems' variables as they are.    *)
(***************************************************************************)
EXTENDS Integers, Naturals, Sequences, FiniteSets, TLC

\* ------------------------------------------------------------------ bounds
MaxLen == 3          \* largest max_length a session asks init_cache for
MaxSp == 2           \* largest size of the mesh's sequence-parallel axis 'sp'
MaxQuery == 3        \* longest query (input_ids sequence axis) of one call
NumTokens == 2       \* distinct token ids fed to the model

\* config.max_sequence_length: rows of the rotary table, side of causal_mask
max_sequence_length == 4
\* max(config.scan_query_chunk_size, config.scan_key_chunk_size)
ChunkThreshold == 2

VARIABLES
    sp,              \* mesh.shape['sp'] of config.mesh_dim
    scan_attention,  \* config.scan_attention
    has_cache,       \* the "cache" collection holds cached_key
    cached_key,      \* cache variable cached_key, sequence axis
    cached_value,    \* cache variable cached_value, sequence axis
    cache_index,     \* cache variable cache_index
    position_ids,    \* model_kwargs["position_ids"] of the generation loop
    sum_L,           \* history: sum of query lengths of completed incremental calls
    stepwise,        \* history: the session so far is token-by-token decoding
    outs,            \* history: per-position attention results of a stepwise session
    last,            \* history: what the most recent operation did
    DIFFERENT_H_STATES_RECURRENT_UPDATE_MECHANISM,  \* the module-level switch of S6.forward
    S6_h,            \* S6's attribute self.h
    ssm,             \* history: what the most recent S6 / MambaBlock call did
    num_rows,        \* the shard files: SELECT COUNT(*) FROM rows of each, in fpaths order
    length,          \* PileRandomIODataset.length
    index,           \* PileRandomIODataset.index: shard paths in fpaths order
    index_keys,      \* PileRandomIODataset.index_keys: the SortedList's contents
    log,             \* records written by logging.error
    item,            \* history: what the most recent __getitem__ did
    config,          \* the LLaMAConfig the module is built with
    partition_rules, \* history: what the most recent get_partition_rules call did
    stack            \* the forward call in progress and the layers' cache collection

cache_vars == <<sp, scan_attention, has_cache, cached_key, cached_value, cache_index,
                position_ids, sum_L, stepwise, outs, last>>
ssm_vars == <<DIFFERENT_H_STATES_RECURRENT_UPDATE_MECHANISM, S6_h, ssm>>
data_vars == <<num_rows, length, index, index_keys, log, item>>
stack_vars == <<config, partition_rules, stack>>
vars == <<cache_vars, ssm_vars, data_vars, stack_vars>>

\* ----------------------------------------------------------- array helpers
Rng(n) == 0 .. (n - 1)
Size(a) == Cardinality(DOMAIN a)
Empty == [j \in {} |-> 0]
Min(a, b) == IF a < b THEN a ELSE b
Max(a, b) == IF a > b THEN a ELSE b

\* jnp.zeros(key.shape) / jnp.zeros(value.shape)
ZeroKey == <<0, 0>>
ZeroValue == 0
zeros(n, z) == [j \in Rng(n) |-> z]
ones(n) == [j \in Rng(n) |-> 1]

\* xq, xk after wq/wk and apply_rotary_emb at position_ids; xv after wv
wk(tok, pos) == <<tok, pos>>
wq(tok, pos) == <<tok, pos>>
wv(tok) == tok + NumTokens

arange(start, n) == [i \in Rng(n) |-> start + i]
xk_of(tokens, pos) == [i \in DOMAIN tokens |-> wk(tokens[i], pos[i])]
xq_of(tokens, pos) == [i \in DOMAIN tokens |-> wq(tokens[i], pos[i])]
xv_of(tokens) == [i \in DOMAIN tokens |-> wv(tokens[i])]

\* input_ids of one call: runs of consecutive token ids, from any first token
Tokens == 1 .. NumTokens
TokenSeqs(n) ==
    {[i \in Rng(n) |-> ((first + i) % NumTokens) + 1] : first \in Rng(NumTokens)}

\* ------------------------------------------------- _concatenate_to_cache
\* sp_size = max_length // mesh.shape['sp']
sp_size(max_length, n) == max_length \div n

\* jnp.logical_and(cur_index >= 0, cur_index < sp_size), cur_index already
\* rebased to the shard: cur_index - axis_index * sp_size
\* variant that tests the global index against the shard's length
ShardPredicate_Unrebased(cur_index, axis_index, max_length, n) ==
    cur_index >= 0 /\ cur_index < sp_size(max_length, n)
ShardPredicate(cur_index, axis_index, max_length, n) ==
    LET local == cur_index - axis_index * sp_size(max_length, n)
    IN  local >= 0 /\ local < sp_size(max_length, n)

\* in_specs PS(.., 'sp', ..): the slice of the sequence axis shard axis_index holds
ShardSlice(cached, axis_index, n) ==
    LET sz == sp_size(Size(cached), n)
    IN  [k \in Rng(sz) |-> cached[axis_index * sz + k]]

\* fn of the single-token branch on one shard: lax.cond on the predicate,
\* cached.at[:, cur_index].set(new[:, -1]) or the slice as it is
\* variant of fn without the lax.cond guard: every shard writes, at the index
\* clipped into its slice
ShardFn_NoGuard(cached, new, cur_index, axis_index, n) ==
    LET max_length == Size(cached)
        slice == ShardSlice(cached, axis_index, n)
        local == cur_index - axis_index * sp_size(max_length, n)
    IN  [slice EXCEPT ![Max(0, Min(local, Size(slice) - 1))] = new[Size(new) - 1]]
ShardFn(cached, new, cur_index, axis_index, n) ==
    LET max_length == Size(cached)
        slice == ShardSlice(cached, axis_index, n)
        local == cur_index - axis_index * sp_size(max_length, n)
    IN  IF ShardPredicate(cur_index, axis_index, max_length, n)
        THEN [slice EXCEPT ![local] = new[Size(new) - 1]]
        ELSE slice

\* shard_map(fn) over the 'sp' axis: out_specs concatenates the shards' slices
ShardedWrite(cached, new, cur_index, n) ==
    LET sz == sp_size(Size(cached), n)
    IN  [j \in DOMAIN cached |->
            ShardFn(cached, new, cur_index, j \div sz, n)[j % sz]]

\* lax.dynamic_update_slice along the sequence axis: the start index is
\* clamped so that the update fits inside the operand
\* variant that ignores the start index and writes from position 0
dynamic_update_slice_AtZero(operand, update, start) ==
    [j \in DOMAIN operand |->
        IF j < Size(update) THEN update[j] ELSE operand[j]]
dynamic_update_slice(operand, update, start) ==
    LET s == Max(0, Min(start, Size(operand) - Size(update)))
    IN  [j \in DOMAIN operand |->
            IF j >= s /\ j < s + Size(update) THEN update[j - s] ELSE operand[j]]

\* the write of the is_initialized branch, by query.shape[1]
CacheWrite(cached, new, cur_index, query_length, n) ==
    IF query_length = 1
    THEN ShardedWrite(cached, new, cur_index, n)
    ELSE dynamic_update_slice(cached, new, cur_index)

\* the cache variables as first created: jnp.zeros of key.shape / value.shape
\* and jnp.array(0)
\* variant that keeps the initializing call's own keys in the new buffer
InitCachedKey_Own(xk) == xk
InitCachedKey(xk) == zeros(Size(xk), ZeroKey)
InitCachedValue(xv) == zeros(Size(xv), ZeroValue)
InitCacheIndex == 0

\* cache_index.value + num_updated_cache_vectors
\* variant that advances by one position whatever the query length
AdvanceIndex_ByOne(cur_index, query_length) == cur_index + 1
AdvanceIndex(cur_index, query_length) == cur_index + query_length

\* shard_map and dynamic_update_slice reject these shapes when tracing:
\* a sharded axis must divide evenly over 'sp', an update must fit its operand
ShardMapOk(query_length, key_length, n) ==
    /\ (query_length = 1 \/ query_length % n = 0)
    /\ key_length % n = 0
UpdateFits(max_length, query_length) ==
    query_length = 1 \/ query_length <= max_length

\* shards whose predicate holds, and shards whose slice differs afterwards
ShardsTrue(cur_index, max_length, n) ==
    {s \in Rng(n) : ShardPredicate(cur_index, s, max_length, n)}
ShardsChanged(ck, cv, xk, xv, cur_index, n) ==
    {s \in Rng(n) : \/ ShardFn(ck, xk, cur_index, s, n) # ShardSlice(ck, s, n)
                    \/ ShardFn(cv, xv, cur_index, s, n) # ShardSlice(cv, s, n)}

\* ------------------------------------------------------ attention masks
Pairs(query_length, key_length) == Rng(query_length) \X Rng(key_length)

\* self.causal_mask[:, :, :query_length, :key_length] (make_causal_mask)
causal_mask_prefill(query_length, key_length) ==
    {p \in Pairs(query_length, key_length) : p[2] <= p[1]}

\* jnp.arange(max_decoder_length)[None] <= (jnp.arange(query_length) + mask_shift)[:, None]
\* variant that shifts by the cache_index held after the call's write
causal_mask_decode_ShiftAfterWrite(query_length, max_decoder_length, mask_shift) ==
    {p \in Pairs(query_length, max_decoder_length) :
        p[2] <= p[1] + mask_shift + query_length}
causal_mask_decode(query_length, max_decoder_length, mask_shift) ==
    {p \in Pairs(query_length, max_decoder_length) : p[2] <= p[1] + mask_shift}

\* segment_ids[:, :, None] == segment_ids[:, None, :]
\* variant that drops the segment mask
segment_mask_of_None(segment_ids) ==
    Pairs(Size(segment_ids), Size(segment_ids))
segment_mask_of(segment_ids) ==
    {p \in Pairs(Size(segment_ids), Size(segment_ids)) :
        segment_ids[p[1]] = segment_ids[p[2]]}

\* jnp.broadcast_to(jnp.expand_dims(attention_mask, (-3, -2)), causal_mask.shape)
BroadcastOk(attention_mask, key_length) ==
    Size(attention_mask) = 1 \/ Size(attention_mask) = key_length
broadcast_mask(attention_mask, query_length, key_length) ==
    {p \in Pairs(query_length, key_length) :
        attention_mask[IF Size(attention_mask) = 1 THEN 0 ELSE p[2]] > 0}

\* combine_masks(attention_mask, causal_mask, fcm_mask, segment_mask) of the
\* standard branch; with a cache segment_mask is None, and fcm_mask is None
\* on the deterministic (decoding) path
StandardMask(cached, query_length, key_length, attention_mask, segment_ids, fcm_mask, mask_shift) ==
    IF cached
    THEN broadcast_mask(attention_mask, query_length, key_length)
            \cap causal_mask_decode(query_length, key_length, mask_shift)
    ELSE broadcast_mask(attention_mask, query_length, key_length)
            \cap causal_mask_prefill(query_length, key_length)
            \cap fcm_mask
            \cap segment_mask_of(segment_ids)

\* the bias handed to ring_attention in the chunked branch: attention_mask only
ChunkedBias(attention_mask, query_length, key_length) ==
    broadcast_mask(attention_mask, query_length, key_length)

\* ring_attention_sharded(xq, xk, xv, attention_bias, segment_ids) of the
\* chunked branch, blockwise_kwargs causal=True: the pairs it lets interact.
\* The call hands over the bias of attention_mask, the call's segment_ids and
\* causal=True; neither fcm_mask nor cache_index is passed, so causality
\* counts query and key positions from 0
RingAttentionPairs(query_length, key_length, attention_mask, segment_ids) ==
    {p \in ChunkedBias(attention_mask, query_length, key_length) :
        /\ p[2] <= p[1]
        /\ segment_ids[p[1]] = segment_ids[p[2]]}

\* xq.shape[1] > max(scan_query_chunk_size, scan_key_chunk_size), with scan_attention
\* variant that takes the chunked branch from the threshold itself on
UseChunked_AtThreshold(scan, query_length) == scan /\ query_length >= ChunkThreshold
UseChunked(scan, query_length) == scan /\ query_length > ChunkThreshold

\* what query i is given to attend: the keys/values the mask lets through
AttendOut(xq, key, value, mask) ==
    [i \in DOMAIN xq |->
        [q |-> xq[i],
         att |-> {<<j, key[j], value[j]>> : j \in {k \in DOMAIN key : <<i, k>> \in mask}}]]

\* ------------------------------------------ FlaxLLaMAAttention.__call__
\* One call of the attention layer on a cache collection.  The record tells
\* whether the call completes, the mask it builds, the keys/values it
\* attends over, and the cache variables it leaves.
Attention(cache, tokens, pos, attention_mask, segment_ids, fcm_mask, init_cache) ==
    LET query_length == Size(tokens)
        xk == xk_of(tokens, pos)
        xv == xv_of(tokens)
        chunked == UseChunked(scan_attention, query_length)
        is_initialized == cache.has
        use_cache == is_initialized \/ init_cache
        max_length == Size(cache.ck)
        key_length == IF is_initialized THEN max_length ELSE query_length
        mask_shift == cache.ci
        cur_index == cache.ci
        mask == IF chunked
                THEN ChunkedBias(attention_mask, query_length, key_length)
                ELSE StandardMask(is_initialized, query_length, key_length,
                                  attention_mask, segment_ids, fcm_mask, mask_shift)
        key == IF is_initialized
               THEN CacheWrite(cache.ck, xk, cur_index, query_length, sp)
               ELSE xk
        value == IF is_initialized
                 THEN CacheWrite(cache.cv, xv, cur_index, query_length, sp)
                 ELSE xv
        ok == /\ BroadcastOk(attention_mask, key_length)
              /\ ShardMapOk(query_length, key_length, sp)
              /\ is_initialized => UpdateFits(max_length, query_length)
              /\ (~is_initialized /\ ~chunked) => query_length <= max_sequence_length
    IN  [ok |-> ok,
         mode |-> IF chunked THEN "chunked" ELSE "standard",
         mask |-> IF ok THEN mask ELSE {},
         key |-> IF ok THEN key ELSE Empty,
         value |-> IF ok THEN value ELSE Empty,
         has |-> IF ok THEN use_cache ELSE cache.has,
         ck |-> IF ~ok \/ ~use_cache THEN cache.ck
                ELSE IF is_initialized THEN key ELSE InitCachedKey(xk),
         cv |-> IF ~ok \/ ~use_cache THEN cache.cv
                ELSE IF is_initialized THEN value ELSE InitCachedValue(xv),
         ci |-> IF ~ok \/ ~use_cache THEN cache.ci
                ELSE IF is_initialized THEN AdvanceIndex(cur_index, query_length)
                ELSE InitCacheIndex,
         preds |-> IF ok /\ is_initialized /\ query_length = 1
                   THEN ShardsTrue(cur_index, max_length, sp) ELSE {},
         changed |-> IF ok /\ is_initialized /\ query_length = 1
                     THEN ShardsChanged(cache.ck, cache.cv, xk, xv, cur_index, sp)
                     ELSE {}]

\* attn_output of a standard-mode call, per query
AttentionOutput(r, tokens, pos) == AttendOut(xq_of(tokens, pos), r.key, r.value, r.mask)

\* the "cache" collection a call is applied to
NoCache == [has |-> FALSE, ck |-> Empty, cv |-> Empty, ci |-> 0]
SessionCache == [has |-> has_cache, ck |-> cached_key, cv |-> cached_value,
                 ci |-> cache_index]

\* the "cache" collection as a call leaves it
CacheAfter(r) == [has |-> r.has, ck |-> r.ck, cv |-> r.cv, ci |-> r.ci]

\* position_ids of FlaxLLaMAPreTrainedModel.__call__ when the caller passes
\* none: ValueError with past_key_values, arange(sequence_length) without
\* variant that falls back to arange(sequence_length) with a cache too
DefaultPositionIds_Arange(with_past, sequence_length) ==
    [raised |-> FALSE, pos |-> arange(0, sequence_length)]
DefaultPositionIds(with_past, sequence_length) ==
    IF with_past
    THEN [raised |-> TRUE, pos |-> Empty]
    ELSE [raised |-> FALSE, pos |-> arange(0, sequence_length)]

\* ------------------------------------------------------------- inputs
\* attention masks a caller passes over n key positions: no padding, or left padding
LeftPadded(n) == [j \in Rng(n) |-> IF j = 0 THEN 0 ELSE 1]
AttentionMasks(n) == {ones(n), LeftPadded(n)}
\* segment ids: one document, or two packed documents
Packed(n) == [j \in Rng(n) |-> IF j = 0 THEN 0 ELSE 1]
SegmentIds(n) == {zeros(n, 0), Packed(n)}
\* fcm_mask: None, or a sampled forgetful mask (column 0 is always kept)
FcmMasks(n) == {Pairs(n, n)} \cup {{p \in Pairs(n, n) : p[2] = 0 \/ p[2] = p[1]}}

\* <<attention_mask, segment_ids>> of a caller's own call on the cache: the
\* defaults, a left-padded mask, or packed segments
CallArguments(query_length, max_length) ==
    {<<ones(max_length), zeros(query_length, 0)>>,
     <<LeftPadded(max_length), zeros(query_length, 0)>>,
     <<ones(max_length), Packed(query_length)>>}

\* arguments of a call without past_key_values: any of the above outside a
\* decoding session, the defaults (attention_mask=None, segment_ids=None,
\* deterministic) while one is open
ForwardTokens(n) == IF has_cache THEN {ones(n)} ELSE TokenSeqs(n)
ForwardAttentionMasks(n) == IF has_cache THEN {ones(n)} ELSE AttentionMasks(n)
ForwardSegmentIds(n) == IF has_cache THEN {zeros(n, 0)} ELSE SegmentIds(n)
ForwardFcmMasks(n) == IF has_cache THEN {Pairs(n, n)} ELSE FcmMasks(n)

\* rotary positions the table freqs_cis holds
ValidPositions(pos) == \A i \in DOMAIN pos : pos[i] >= 0 /\ pos[i] < max_sequence_length

NoCall == [op |-> "none", ok |-> TRUE, mode |-> "standard", L |-> 0,
           pos |-> Empty, am |-> Empty, segs |-> Empty,
           prev_has |-> FALSE, prev_index |-> 0,
           prev_key |-> Empty, prev_value |-> Empty,
           xk |-> Empty, xv |-> Empty,
           mask |-> {}, preds |-> {}, changed |-> {},
           ran |-> FALSE, out |-> NoCache]

\* what a call was given (the cache collection passed in, its arguments) and
\* what it did
Record(op, cache, r, tokens, pos, am, segs) ==
    [op |-> op, ok |-> r.ok, mode |-> r.mode, L |-> Size(tokens),
     pos |-> pos, am |-> am, segs |-> segs,
     prev_has |-> cache.has, prev_index |-> cache.ci,
     prev_key |-> cache.ck, prev_value |-> cache.cv,
     xk |-> xk_of(tokens, pos), xv |-> xv_of(tokens),
     mask |-> r.mask, preds |-> r.preds, changed |-> r.changed,
     ran |-> TRUE, out |-> CacheAfter(r)]

\* a call stopped by FlaxLLaMAPreTrainedModel.__call__ before module.apply:
\* the cache collection it was given stays as it is
Rejected(op, cache, query_length) ==
    [op |-> op, ok |-> FALSE, mode |-> "standard", L |-> query_length,
     pos |-> Empty, am |-> Empty, segs |-> Empty,
     prev_has |-> cache.has, prev_index |-> cache.ci,
     prev_key |-> cache.ck, prev_value |-> cache.cv,
     xk |-> Empty, xv |-> Empty,
     mask |-> {}, preds |-> {}, changed |-> {},
     ran |-> FALSE, out |-> cache]

\* ------------------------------------------------------ S6 and MambaBlock
\* The module-level hyperparameters of the state-space block, scaled down;
\* the block works on 2 * d_model features.  Tensors are nested functions
\* [batch][time][feature] and [batch][time][feature][state].  The nn.* calls
\* of S6 and MambaBlock are read as the torch calls they name.
d_model == 1
state_size == 2
seq_len == 2
batch_size == 2
d_inner == 2 * d_model
\* nn.Conv1d(seq_len, seq_len, kernel_size=3, padding=1)
kernel_size == 3
padding == 1

MaxBatch == 3        \* largest batch of one input
MaxInputLen == 3     \* longest time axis of one input

RECURSIVE SumUpTo(_, _)
SumUpTo(v, n) == IF n = 0 THEN 0 ELSE v[n - 1] + SumUpTo(v, n - 1)
SumOver(v) == SumUpTo(v, Size(v))

\* x of shape [b, l, d]: row i carries the time series s scaled by i + 1
Input(b, l, d, s) == [i \in Rng(b) |-> [t \in Rng(l) |-> [f \in Rng(d) |-> s[t] * (i + 1)]]]
Series(l) == [Rng(l) -> {0, 1}]
TimeAxis(x) == Size(x[0])

\* nn.Linear over the feature axis; parameters: every weight w, bias[o] = bias + o
Linear(v, out_features, w, bias) == [o \in Rng(out_features) |-> w * SumOver(v) + bias + o]
fc1(v) == Linear(v, Size(v), 1, 0)
fc2(v) == Linear(v, state_size, 1, 0)
fc3(v) == Linear(v, state_size, 2, 0)
\* F.softplus and nn.exp (at a non-positive argument) over the integers:
\* both positive, both non-decreasing
softplus(z) == IF z > 0 THEN z + 1 ELSE 1
exp(z) == 1 + (8 \div (1 - z))

\* per [batch, time] entry v = x[i][t]:
\* self.B = self.fc2(x), self.C = self.fc3(x), self.delta = F.softplus(self.fc1(x))
S6_B(v, n) == fc2(v)[n]
S6_C(v, n) == fc3(v)[n]
S6_delta(v, f) == softplus(fc1(v)[f])
\* self.A = -nn.exp(self.A_log), A_log = log(arange(1, state_size + 1)) on every feature
S6_A(f, n) == 0 - (n + 1)
\* discretization(): dB = einsum("bld,bln->bldn", delta, B),
\* dA = exp(einsum("bld,dn->bldn", delta, A))
dB(v, f, n) == S6_delta(v, f) * S6_B(v, n)
dA(v, f, n) == exp(S6_delta(v, f) * S6_A(f, n))

\* nn.zeros(batch, seq_len, d_model, state_size)
zeros_bldn(b, l, d, n) ==
    [i \in Rng(b) |-> [t \in Rng(l) |-> [f \in Rng(d) |-> [k \in Rng(n) |-> 0]]]]

\* einsum and elementwise arithmetic broadcast an axis of size 1 and reject
\* any other pair of unequal sizes
\* variant that also lets an empty axis pass against any size
Broadcastable_EmptyToo(a, b) == a = b \/ a = 1 \/ b = 1 \/ a = 0 \/ b = 0
Broadcastable(a, b) == a = b \/ a = 1 \/ b = 1
BroadcastSize(a, b) == IF a = 1 THEN b ELSE IF b = 1 THEN a ELSE Min(a, b)
At(size, i) == IF size = 1 THEN 0 ELSE i

\* self.h[:current_batch_size, ...]
SliceRows(h, current_batch_size) ==
    [i \in Rng(Min(current_batch_size, Size(h))) |-> h[i]]

\* S6.forward(x) on self.h = self_h with the switch at flag.  The record
\* tells whether the call returns, the y it returns, the h_new it computes
\* (h of the else branch) and whether it cut rows off self.h.
S6_forward(self_h, flag, x) ==
    LET b == Size(x)
        l == TimeAxis(x)
        current_batch_size == b
        different_batch_size == Size(self_h) # current_batch_size
        \* self.h[:current_batch_size, ...] or self.h; nn.zeros(x.size(0), self.seq_len, ..)
        hb == IF flag
              THEN (IF different_batch_size
                    THEN Size(SliceRows(self_h, current_batch_size))
                    ELSE Size(self_h))
              ELSE b
        h(i, t, f, n) == IF flag THEN self_h[i][t][f][n] ELSE 0
        ok == Broadcastable(b, hb) /\ Broadcastable(l, seq_len)
        bb == BroadcastSize(b, hb)
        lb == BroadcastSize(l, seq_len)
        h_new(i, t, f, n) ==
            dA(x[At(b, i)][At(l, t)], f, n) * h(At(hb, i), At(seq_len, t), f, n)
            + x[At(b, i)][At(l, t)][f] * dB(x[At(b, i)][At(l, t)], f, n)
    IN  IF ~ok
        THEN [ok |-> FALSE, y |-> Empty, h_new |-> Empty, sliced |-> FALSE]
        ELSE [ok |-> TRUE,
              y |-> [i \in Rng(bb) |-> [t \in Rng(lb) |-> [f \in Rng(d_inner) |->
                        SumOver([n \in Rng(state_size) |->
                            S6_C(x[At(b, i)][At(l, t)], n) * h_new(i, t, f, n)])]]],
              h_new |-> [i \in Rng(bb) |-> [t \in Rng(lb) |-> [f \in Rng(d_inner) |->
                            [n \in Rng(state_size) |-> h_new(i, t, f, n)]]]],
              sliced |-> flag /\ Size(self_h) > current_batch_size]

\* RMSNorm over the feature axis, for the single feature of d_model = 1:
\* x / sqrt(x^2 + eps) with weight 1
norm(v) == [f \in DOMAIN v |-> IF v[f] > 0 THEN 1 ELSE IF v[f] < 0 THEN 0 - 1 ELSE 0]
inp_proj(v) == Linear(v, d_inner, 1, 0)
D(v) == Linear(v, d_inner, 2, 0)
\* nn.init.constant_(self.out_proj.bias, 1.0)
out_proj(v) == Linear(v, d_model, 1, 1)
\* F.silu over the integers (the model's activations are never negative)
silu(z) == IF z > 0 THEN z ELSE 0

\* self.conv's parameters: weight[out_channel][in_channel][k], bias[out_channel]
conv_weight(o, c, k) == k + 1
conv_bias(o) == 0
Padded(v, j) == IF j \in DOMAIN v THEN v[j] ELSE 0
\* self.conv(x_proj)[i][o][f]: input [batch, channels, length] =
\* [batch, time, feature]: the time axis is the channel axis, the kernel
\* slides along the features
conv(x_proj_i, o, f) ==
    conv_bias(o)
    + SumOver([c \in Rng(seq_len) |->
          SumOver([k \in Rng(kernel_size) |->
              conv_weight(o, c, k) * Padded(x_proj_i[c], f + k - padding)])])
\* nn.tril(nn.ones(seq_len, 2*d_model)), repeated over the batch
tril_mask(t, f) == IF f <= t THEN 1 ELSE 0
\* x_proj = self.inp_proj(self.norm(x))
ProjStage(x) == [i \in DOMAIN x |-> [t \in DOMAIN x[i] |-> inp_proj(norm(x[i][t]))]]
\* x_conv = self.conv(x_proj) * mask
ConvStage(x_proj) ==
    [i \in DOMAIN x_proj |-> [t \in Rng(seq_len) |-> [f \in Rng(d_inner) |->
        conv(x_proj[i], t, f) * tril_mask(t, f)]]]
\* x_conv_act = F.silu(x_conv)
ActStage(x_conv) ==
    [i \in DOMAIN x_conv |-> [t \in DOMAIN x_conv[i] |->
        [f \in DOMAIN x_conv[i][t] |-> silu(x_conv[i][t][f])]]]
\* x_out = self.out_proj(x_ssm * F.silu(self.D(x)))
OutStage(x, x_ssm) ==
    [i \in DOMAIN x_ssm |-> [t \in DOMAIN x_ssm[i] |->
        out_proj([f \in Rng(d_inner) |->
            x_ssm[i][t][f] * silu(D(norm(x[At(Size(x), i)][At(TimeAxis(x), t)]))[f])])]]

\* self.conv rejects an input whose channel axis is not seq_len
ConvChannelsOk(x_proj) == TimeAxis(x_proj) = seq_len

\* MambaBlock.forward(x), attention_mask=None
Mamba_forward(self_h, flag, x) ==
    IF ~ConvChannelsOk(x)
    THEN [ok |-> FALSE, x_proj |-> Empty, x_conv |-> Empty, y |-> Empty,
          h_new |-> Empty, sliced |-> FALSE]
    ELSE LET x_proj == ProjStage(x)
             x_conv == ConvStage(x_proj)
             s6 == S6_forward(self_h, flag, ActStage(x_conv))
         IN  [ok |-> s6.ok, x_proj |-> x_proj, x_conv |-> x_conv,
              y |-> IF s6.ok THEN OutStage(x, s6.y) ELSE Empty,
              h_new |-> s6.h_new, sliced |-> s6.sliced]

\* S6.__init__: self.h = nn.zeros(batch_size, seq_len, d_model, state_size)
S6_h_constructed == zeros_bldn(batch_size, seq_len, d_inner, state_size)
NoSsmCall == [op |-> "none", ok |-> TRUE, x |-> Empty, y |-> Empty,
              x_proj |-> Empty, x_conv |-> Empty, sliced |-> FALSE,
              temp_buffer |-> Empty]
SsmConstructed ==
    /\ S6_h = S6_h_constructed
    /\ ssm = NoSsmCall

\* ------------------------------------------------- PileRandomIODataset
\* the constructor's max_seq_len and pad_id
max_seq_len == 2
pad_id == 0

MaxShards == 2       \* most shard files in fpaths
MaxRows == 2         \* most rows of one shard
MaxTokens == 4       \* longest token sequence a row holds
MaxPredStart == 3    \* largest pred_start a row holds

\* SortedList.add(value): value goes after the elements that are <= value
SortedAdd(list, value) ==
    LET k == Cardinality({j \in DOMAIN list : list[j] <= value})
    IN  [j \in Rng(Size(list) + 1) |->
            IF j < k THEN list[j] ELSE IF j = k THEN value ELSE list[j - 1]]
\* SortedList.bisect_left(value): the first position whose element is >= value
\* variant that stops after the elements equal to value (bisect_right)
bisect_left_AfterEqual(list, value) ==
    Cardinality({j \in DOMAIN list : list[j] <= value})
bisect_left(list, value) == Cardinality({j \in DOMAIN list : list[j] < value})
\* list.append(value)
list_append(list, value) ==
    [j \in Rng(Size(list) + 1) |-> IF j < Size(list) THEN list[j] ELSE value]
\* [value] * n: empty when n <= 0
Repeat(value, n) == [j \in Rng(n) |-> value]
\* a + b on lists
Concat(a, b) ==
    [j \in Rng(Size(a) + Size(b)) |-> IF j < Size(a) THEN a[j] ELSE b[j - Size(a)]]

\* __init__'s loop over the first k shard files; counts[i] is the
\* SELECT COUNT(*) of shard i, the shard's path is its position in fpaths
RECURSIVE IndexAfter(_, _)
IndexAfter(counts, k) ==
    IF k = 0
    THEN [length |-> 0, index |-> Empty, index_keys |-> Empty]
    ELSE LET before == IndexAfter(counts, k - 1)
             fpath == k - 1
             new_length == before.length + counts[k - 1]
         IN  [length |-> new_length,
              index |-> list_append(before.index, fpath),
              index_keys |-> SortedAdd(before.index_keys, new_length)]

\* _get_db_and_idx(idx) on the lists self.index and self.index_keys;
\* self.index[key] raises IndexError when key is past the last shard
\* variant that takes the last shard when key is past it
get_db_and_idx_Clamped(index_list, keys, idx) ==
    LET key == Min(bisect_left(keys, idx + 1), Size(index_list) - 1)
    IN  IF key \notin DOMAIN index_list
        THEN [ok |-> FALSE, key |-> key, fpath |-> 0 - 1, db_key |-> 0]
        ELSE [ok |-> TRUE, key |-> key, fpath |-> index_list[key],
              db_key |-> idx - (IF key = 0 THEN 0 ELSE keys[key - 1])]
get_db_and_idx(index_list, keys, idx) ==
    LET key == bisect_left(keys, idx + 1)
    IN  IF key \notin DOMAIN index_list
        THEN [ok |-> FALSE, key |-> key, fpath |-> 0 - 1, db_key |-> 0]
        ELSE [ok |-> TRUE, key |-> key, fpath |-> index_list[key],
              db_key |-> idx - (IF key = 0 THEN 0 ELSE keys[key - 1])]

\* "SELECT .. FROM rows WHERE id == ?" finds a row: the ids of a shard of n
\* rows are 0 .. n - 1
RowExists(counts, fpath, db_idx) == db_idx >= 0 /\ db_idx < counts[fpath]
\* what the SELECT finds at an id of the shard: a row whose seq decompresses
\* and parses to n_tokens integers, with its pred_start; or a row that cannot
\* be read, whose seq is not a zstd frame, or whose text is not integers
RowContents ==
    [status : {"ok"}, n_tokens : 1 .. MaxTokens, pred_start : 0 .. MaxPredStart]
    \cup [status : {"unreadable", "corrupt", "nonint"}, n_tokens : {0}, pred_start : {0}]
\* [int(x) for x in decompress(seq).decode("ASCII").split()]
TokensOf(row) == [j \in Rng(row.n_tokens) |-> j + 1]

\* weights = [0] * (pred_start - 1) + [1] * (len(tokens) - pred_start), then
\* weights += [0] * (self.max_seq_len - len(weights))
WeightsOf(tokens, pred_start) ==
    LET weights == Concat(Repeat(0, pred_start - 1), Repeat(1, Size(tokens) - pred_start))
    IN  Concat(weights, Repeat(0, max_seq_len - Size(weights)))
\* tokens + [self.pad_id] * (self.max_seq_len + 1 - len(tokens))
PaddedTokens(tokens) == Concat(tokens, Repeat(pad_id, max_seq_len + 1 - Size(tokens)))

\* the except clause: logging.error(f"idx: {idx} "), then raise.  The record
\* written names the fields the message carries.
\* variant that logs and returns None instead of raising
ExceptClause_Swallow(idx) == [record |-> {<<"idx", idx>>}, reraise |-> FALSE]
ExceptClause(idx) == [record |-> {<<"idx", idx>>}, reraise |-> TRUE]

\* the connection of one __getitem__ call when the call ends: none was
\* opened when resolving failed; conn.close() follows fetchall()[0] inside
\* the try, so a failed read leaves it open; the later steps run after it
Connection(failed) ==
    IF failed = "resolve" THEN "none"
    ELSE IF failed = "read" THEN "open"
    ELSE "closed"

\* __getitem__(idx) on shards of counts rows, the SELECT at the resolved id
\* finding row
getitem(counts, index_list, keys, idx, row) ==
    LET at == get_db_and_idx(index_list, keys, idx)
        found == at.ok /\ RowExists(counts, at.fpath, at.db_key)
        failed == IF ~at.ok THEN "resolve"
                  ELSE IF ~found \/ row.status = "unreadable" THEN "read"
                  ELSE IF row.status = "corrupt" THEN "decompress"
                  ELSE IF row.status = "nonint" THEN "parse"
                  ELSE "none"
        tokens == TokensOf(row)
    IN  IF failed = "none"
        THEN [idx |-> idx, failed |-> failed, outcome |-> "returned",
              fpath |-> at.fpath, db_key |-> at.db_key,
              n_tokens |-> Size(tokens), pred_start |-> row.pred_start,
              tokens |-> PaddedTokens(tokens),
              weights |-> WeightsOf(tokens, row.pred_start),
              logged |-> << >>, conn |-> Connection(failed)]
        ELSE [idx |-> idx, failed |-> failed,
              outcome |-> IF ExceptClause(idx).reraise THEN "raised" ELSE "returned",
              fpath |-> at.fpath, db_key |-> at.db_key,
              n_tokens |-> 0, pred_start |-> 0,
              tokens |-> Empty, weights |-> Empty,
              logged |-> <<ExceptClause(idx).record>>, conn |-> Connection(failed)]

NoItem == [idx |-> 0, failed |-> "none", outcome |-> "none", fpath |-> 0 - 1,
           db_key |-> 0, n_tokens |-> 0, pred_start |-> 0,
           tokens |-> Empty, weights |-> Empty, logged |-> << >>, conn |-> "none"]
\* PileRandomIODataset before __init__'s loop has run (fpaths = [])
DatasetEmpty ==
    /\ num_rows = Empty
    /\ length = 0
    /\ index = Empty
    /\ index_keys = Empty
    /\ log = << >>
    /\ item = NoItem

\* ------------------------------------------ LLaMAConfig.get_partition_rules
MaxScanAxis == 2     \* largest scan_axis a caller passes

\* one (pattern, PartitionSpec) rule; a PartitionSpec is the tuple of its
\* entries, written "None", "tp" and "fsdp,sp" for ("fsdp", "sp")
Rule(pattern, spec) == [pattern |-> pattern, spec |-> spec]

\* the rules returned for scan_layers with scan_axis == 0
ScanAxis0Rules ==
    <<Rule("transformer/wte/embedding", <<"tp", "fsdp,sp">>),
      Rule("attention/(wq|wk|wv)/kernel", <<"None", "fsdp,sp", "tp">>),
      Rule("attention/wo/kernel", <<"None", "tp", "fsdp,sp">>),
      Rule("feed_forward/w1/kernel", <<"None", "fsdp,sp", "tp">>),
      Rule("feed_forward/w2/kernel", <<"None", "tp", "fsdp,sp">>),
      Rule("feed_forward/w3/kernel", <<"None", "fsdp,sp", "tp">>),
      Rule("attention_norm/kernel", <<"None", "None">>),
      Rule("ffn_norm/kernel", <<"None", "None">>),
      Rule("transformer/ln_f/kernel", <<"None">>),
      Rule("lm_head/kernel", <<"fsdp,sp", "tp">>),
      Rule(".*", <<"None">>)>>

\* the rules returned for scan_layers with scan_axis == 1
ScanAxis1Rules ==
    <<Rule("transformer/wte/embedding", <<"tp", "fsdp,sp">>),
      Rule("attention/(wq|wk|wv)/kernel", <<"fsdp,sp", "None", "tp">>),
      Rule("attention/wo/kernel", <<"tp", "None", "fsdp,sp">>),
      Rule("feed_forward/w1/kernel", <<"fsdp,sp", "None", "tp">>),
      Rule("feed_forward/w2/kernel", <<"tp", "None", "fsdp,sp">>),
      Rule("feed_forward/w3/kernel", <<"fsdp,sp", "None", "tp">>),
      Rule("attention_norm/kernel", <<"None", "None">>),
      Rule("ffn_norm/kernel", <<"None", "None">>),
      Rule("transformer/ln_f/kernel", <<"None">>),
      Rule("lm_head/kernel", <<"fsdp,sp", "tp">>),
      Rule(".*", <<"None">>)>>

\* the rules returned without scan_layers
UnscannedRules ==
    <<Rule("transformer/wte/embedding", <<"tp", "fsdp,sp">>),
      Rule("attention/(wq|wk|wv)/kernel", <<"fsdp,sp", "tp">>),
      Rule("attention/wo/kernel", <<"tp", "fsdp,sp">>),
      Rule("feed_forward/w1/kernel", <<"fsdp,sp", "tp">>),
      Rule("feed_forward/w2/kernel", <<"tp", "fsdp,sp">>),
      Rule("feed_forward/w3/kernel", <<"fsdp,sp", "tp">>),
      Rule("attention_norm/kernel", <<"None">>),
      Rule("ffn_norm/kernel", <<"None">>),
      Rule("transformer/ln_f/kernel", <<"None">>),
      Rule("lm_head/kernel", <<"fsdp,sp", "tp">>),
      Rule(".*", <<"None">>)>>

NoError == [type |-> "", text |-> "", scan_axis |-> 0]
\* ValueError(f"Invalid scan_axis {scan_axis}")
InvalidScanAxis(scan_axis) ==
    [type |-> "ValueError", text |-> "Invalid scan_axis", scan_axis |-> scan_axis]

\* get_partition_rules(scan_layers, scan_axis): the rules it returns or the
\* error it raises
\* variant whose last branch returns the scan_axis == 0 rules
get_partition_rules_Fallback(scan_layers, scan_axis) ==
    IF scan_layers
    THEN IF scan_axis = 1
         THEN [raised |-> FALSE, error |-> NoError, rules |-> ScanAxis1Rules]
         ELSE [raised |-> FALSE, error |-> NoError, rules |-> ScanAxis0Rules]
    ELSE [raised |-> FALSE, error |-> NoError, rules |-> UnscannedRules]
get_partition_rules(scan_layers, scan_axis) ==
    IF scan_layers
    THEN IF scan_axis = 0
         THEN [raised |-> FALSE, error |-> NoError, rules |-> ScanAxis0Rules]
         ELSE IF scan_axis = 1
         THEN [raised |-> FALSE, error |-> NoError, rules |-> ScanAxis1Rules]
         ELSE [raised |-> TRUE, error |-> InvalidScanAxis(scan_axis), rules |-> << >>]
    ELSE [raised |-> FALSE, error |-> NoError, rules |-> UnscannedRules]

NoRulesCall == [called |-> FALSE, scan_layers |-> FALSE, scan_axis |-> 0,
                raised |-> FALSE, error |-> NoError, rules |-> << >>]

\* ------------------------------ FlaxLLaMAForCausalLMModule, stage by stage
MaxLayers == 2       \* largest config.num_hidden_layers

\* the configs a module is built with.  MambaBlock is built on
\* config.max_sequence_length and config.hidden_size, its mask on the
\* module-level seq_len and d_model
Configs ==
    [num_hidden_layers : 1 .. MaxLayers, scan_layers : BOOLEAN,
     tie_word_embeddings : BOOLEAN,
     max_sequence_length : {seq_len, max_sequence_length},
     hidden_size : {d_model}]
\* LLaMAConfig() as far as the other subsystems need one
DefaultConfig ==
    [num_hidden_layers |-> 1, scan_layers |-> TRUE, tie_word_embeddings |-> FALSE,
     max_sequence_length |-> max_sequence_length, hidden_size |-> d_model]

\* hidden states are written as the stages applied so far, in order; a block
\* stage names the layer whose parameters it used
Stage(name, layer, param) == [stage |-> name, layer |-> layer, param |-> param]
Through(h, name, layer, param) == Append(h, Stage(name, layer, param))

\* self.wte(input_ids), then self.dropout
wte(input_ids) == <<Stage("wte", 0 - 1, "wte.embedding")>>

\* FlaxLLaMABlock.__call__ of layer i: the new hidden states, as the carry of
\* the pair (outputs, None) when config.scan_layers
\* variant whose scanned block hands back the hidden states it was given
Block_ScanKeepsInput(scan_layers, i, hidden_states) ==
    LET outputs == Through(hidden_states, "block", i, "params")
    IN  IF scan_layers THEN [carry |-> hidden_states, ys |-> "None"] ELSE outputs
Block(scan_layers, i, hidden_states) ==
    LET outputs == Through(hidden_states, "block", i, "params")
    IN  IF scan_layers THEN [carry |-> outputs, ys |-> "None"] ELSE outputs

\* nn.scan(block, length=num_hidden_layers)(hidden_states, ...): iteration k
\* runs the block on slice k of the stacked params and cache, the hidden
\* states are the carry, every other argument is broadcast
RECURSIVE scan(_, _, _)
scan(scan_length, k, carry) ==
    IF k >= scan_length THEN [carry |-> carry, ys |-> "None"]
    ELSE scan(scan_length, k + 1, Block(TRUE, k, carry).carry)

\* for block in blocks: hidden_states = layer_outputs
RECURSIVE Unrolled(_, _, _)
Unrolled(n_blocks, k, hidden_states) ==
    IF k >= n_blocks THEN hidden_states
    ELSE Unrolled(n_blocks, k + 1, Block(FALSE, k, hidden_states))

\* FlaxLLaMABlockCollection.__call__: outputs[0]
BlockCollection(cfg, hidden_states) ==
    IF cfg.scan_layers
    THEN scan(cfg.num_hidden_layers, 0, hidden_states).carry
    ELSE Unrolled(cfg.num_hidden_layers, 0, hidden_states)

\* the cache variables of one layer's attention
NoLayerCache == [has |-> FALSE, max_length |-> 0, ci |-> 0]
NoLayerCaches(cfg) == [i \in Rng(cfg.num_hidden_layers) |-> NoLayerCache]

\* _concatenate_to_cache of one layer on a query of query_length positions:
\* created with index 0 under init_cache, advanced when initialized
LayerCache(c, query_length, init_cache) ==
    IF c.has
    THEN [c EXCEPT !.ci = AdvanceIndex(c.ci, query_length)]
    ELSE IF init_cache
    THEN [has |-> TRUE, max_length |-> query_length, ci |-> InitCacheIndex]
    ELSE c

\* the cache variables layer i works on: slice i of the scanned collection
\* (variable_axes 'cache': 0), the scope named str(i) of the unrolled one
\* variant in which every layer works on the first slice
LayerCacheSlot_Shared(scan_layers, i) == 0
LayerCacheSlot(scan_layers, i) == i

\* the cache collection after layers k .. n_blocks - 1 have run
RECURSIVE BlocksOnCache(_, _, _, _, _)
BlocksOnCache(cfg, k, cache, query_length, init_cache) ==
    IF k >= cfg.num_hidden_layers THEN cache
    ELSE BlocksOnCache(cfg, k + 1,
             [cache EXCEPT ![LayerCacheSlot(cfg.scan_layers, k)] =
                 LayerCache(@, query_length, init_cache)],
             query_length, init_cache)

\* the shapes every layer's attention accepts (standard branch)
BlocksOk(cfg, cache, query_length) ==
    \A i \in DOMAIN cache :
        IF cache[i].has
        THEN /\ ShardMapOk(query_length, cache[i].max_length, sp)
             /\ UpdateFits(cache[i].max_length, query_length)
        ELSE query_length <= cfg.max_sequence_length

\* MambaBlock(config.max_sequence_length, config.hidden_size, ..) on hidden
\* states of query_length positions: self.conv has max_sequence_length
\* channels, the tril mask is seq_len by 2 * d_model, S6's h has
\* max_sequence_length time steps
MambaStage(cfg, query_length) ==
    LET masked == BroadcastSize(cfg.max_sequence_length, seq_len)
    IN  [ok |-> /\ query_length = cfg.max_sequence_length
                /\ Broadcastable(cfg.max_sequence_length, seq_len)
                /\ Broadcastable(2 * cfg.hidden_size, 2 * d_model)
                /\ Broadcastable(masked, cfg.max_sequence_length)
                /\ Broadcastable(masked, query_length),
         length |-> BroadcastSize(masked, query_length)]

\* the kernel self.lm_head is applied with
lm_head_kernel(cfg) ==
    IF cfg.tie_word_embeddings THEN "wte.embedding.T" ELSE "lm_head.kernel"

\* the statement that follows each stage of FlaxLLaMAModule.__call__ and
\* FlaxLLaMAForCausalLMModule.__call__
\* variant that applies ln_f before final_proj
StageAfter_NormFirst(pc) ==
    CASE pc = "wte" -> "h"
      [] pc = "h" -> "m1"
      [] pc = "m1" -> "m2"
      [] pc = "m2" -> "m3"
      [] pc = "m3" -> "ln_f"
      [] pc = "ln_f" -> "final_proj"
      [] pc = "final_proj" -> "lm_head"
      [] pc = "lm_head" -> "returned"
StageAfter(pc) ==
    CASE pc = "wte" -> "h"
      [] pc = "h" -> "m1"
      [] pc = "m1" -> "m2"
      [] pc = "m2" -> "m3"
      [] pc = "m3" -> "final_proj"
      [] pc = "final_proj" -> "ln_f"
      [] pc = "ln_f" -> "lm_head"
      [] pc = "lm_head" -> "returned"

\* no call in progress, no decoding session
NoStack(cfg) ==
    [pc |-> "idle", kind |-> "none", length |-> 0, hidden_states |-> << >>,
     work |-> NoLayerCaches(cfg), cache |-> NoLayerCaches(cfg)]
StackIdle ==
    /\ config = DefaultConfig
    /\ partition_rules = NoRulesCall
    /\ stack = NoStack(DefaultConfig)

\* ------------------------------------------------- the decoding session
Init ==
    /\ sp \in 1 .. MaxSp
    /\ scan_attention \in BOOLEAN
    /\ has_cache = FALSE
    /\ cached_key = Empty
    /\ cached_value = Empty
    /\ cache_index = 0
    /\ position_ids = Empty
    /\ sum_L = 0
    /\ stepwise = FALSE
    /\ outs = Empty
    /\ last = NoCall
    /\ DIFFERENT_H_STATES_RECURRENT_UPDATE_MECHANISM = FALSE
    /\ SsmConstructed
    /\ DatasetEmpty
    /\ StackIdle

\* FlaxLLaMAPreTrainedModel.init_cache(batch_size, max_length): module.init
\* with init_cache=True on inputs of length max_length, no cache collection
\* passed in; the returned "cache" collection starts a decoding session (and
\* replaces the caller's previous one).  A call that raises returns nothing.
InitCacheWith(max_length, new_position_ids, op) ==
    LET tokens == ones(max_length)
        pos == arange(0, max_length)
        am == ones(max_length)
        segs == zeros(max_length, 0)
    IN  \E r \in {Attention(NoCache, tokens, pos, am, segs,
                            Pairs(max_length, max_length), TRUE)} :
        /\ has_cache' = IF r.ok THEN r.has ELSE has_cache
        /\ cached_key' = IF r.ok THEN r.ck ELSE cached_key
        /\ cached_value' = IF r.ok THEN r.cv ELSE cached_value
        /\ cache_index' = IF r.ok THEN r.ci ELSE cache_index
        /\ position_ids' = IF r.ok THEN new_position_ids ELSE position_ids
        /\ sum_L' = IF r.ok THEN 0 ELSE sum_L
        /\ stepwise' = IF r.ok THEN TRUE ELSE stepwise
        /\ outs' = IF r.ok THEN Empty ELSE outs
        /\ last' = Record(op, NoCache, r, tokens, pos, am, segs)
        /\ UNCHANGED <<sp, scan_attention, ssm_vars, data_vars, stack_vars>>

InitCache(max_length) == InitCacheWith(max_length, Empty, "init")

\* prepare_inputs_for_generation(input_ids, max_length, attention_mask):
\* init_cache, then position_ids = arange(seq_length) without a mask and
\* attention_mask.cumsum(-1) - 1 with one
cumsum_minus_1(attention_mask) ==
    [i \in DOMAIN attention_mask |->
        Cardinality({j \in DOMAIN attention_mask : j <= i /\ attention_mask[j] > 0}) - 1]

PrepareInputs(seq_length, max_length, with_mask) ==
    InitCacheWith(max_length,
                  IF with_mask THEN cumsum_minus_1(ones(seq_length))
                               ELSE arange(0, seq_length),
                  "prepare")

\* update_inputs_for_generation: position_ids[:, -1:] + 1
\* variant that hands the last position on as it is
UpdatedPositionIds_Last(pos) == arange(pos[Size(pos) - 1], 1)
UpdatedPositionIds(pos) == arange(pos[Size(pos) - 1] + 1, 1)

\* FlaxLLaMAPreTrainedModel.__call__ with past_key_values: module.apply with
\* the cache mutable, init_cache=False; the returned cache replaces the
\* session's.  A call that raises returns nothing.
ApplyWithCacheAs(op, tokens, pos, am, segs, new_position_ids) ==
    LET L == Size(tokens)
    IN  \E r \in {Attention(SessionCache, tokens, pos, am, segs, Pairs(L, L), FALSE)} :
        LET step == /\ stepwise /\ r.ok /\ L = 1
                    /\ pos[0] = Size(outs) /\ am = ones(Size(am)) /\ segs = zeros(L, 0)
        IN  /\ has_cache' = r.has
            /\ cached_key' = r.ck
            /\ cached_value' = r.cv
            /\ cache_index' = r.ci
            /\ position_ids' = IF r.ok THEN new_position_ids ELSE position_ids
            /\ sum_L' = IF r.ok THEN sum_L + L ELSE sum_L
            /\ stepwise' = step
            /\ outs' = IF step THEN [t \in Rng(Size(outs) + 1) |->
                                        IF t < Size(outs) THEN outs[t]
                                        ELSE AttentionOutput(r, tokens, pos)[0]]
                               ELSE Empty
            /\ last' = Record(op, SessionCache, r, tokens, pos, am, segs)
            /\ UNCHANGED <<sp, scan_attention, ssm_vars, data_vars, stack_vars>>

ApplyWithCache(tokens, pos, am, segs, new_position_ids) ==
    ApplyWithCacheAs("call", tokens, pos, am, segs, new_position_ids)

\* FlaxLLaMAPreTrainedModel.__call__ with past_key_values and no
\* position_ids (attention_mask and segment_ids left to their defaults)
CallWithoutPositionIds(tokens) ==
    /\ has_cache
    /\ \E d \in {DefaultPositionIds(TRUE, Size(tokens))} :
          IF d.raised
          THEN /\ last' = Rejected("nopos", SessionCache, Size(tokens))
               /\ UNCHANGED <<sp, scan_attention, has_cache, cached_key, cached_value,
                              cache_index, position_ids, sum_L, stepwise, outs>>
               /\ UNCHANGED <<ssm_vars, data_vars, stack_vars>>
          ELSE ApplyWithCacheAs("nopos", tokens, d.pos, ones(Size(tokens)),
                                zeros(Size(tokens), 0), position_ids)

\* a caller's own incremental call: position_ids continue at the cache cursor
CallWithCache(tokens, am, segs) ==
    /\ has_cache /\ position_ids = Empty
    /\ ValidPositions(arange(cache_index, Size(tokens)))
    /\ ApplyWithCache(tokens, arange(cache_index, Size(tokens)), am, segs, Empty)

\* one step of the generation loop: the call with the model_kwargs of
\* prepare_inputs_for_generation (attention_mask of ones over max_length),
\* then update_inputs_for_generation
GenerationStep(tokens) ==
    /\ has_cache /\ position_ids # Empty
    /\ Size(tokens) = Size(position_ids)
    /\ ValidPositions(position_ids)
    /\ ApplyWithCache(tokens, position_ids, ones(Size(cached_key)),
                      zeros(Size(tokens), 0), UpdatedPositionIds(position_ids))

\* FlaxLLaMAPreTrainedModel.__call__ without past_key_values: mutable=False,
\* no cache collection is passed or returned
Forward(tokens, am, segs, fcm) ==
    LET L == Size(tokens)
        pos == DefaultPositionIds(FALSE, L).pos
    IN  \E r \in {Attention(NoCache, tokens, pos, am, segs, fcm, FALSE)} :
        /\ last' = Record("forward", NoCache, r, tokens, pos, am, segs)
        /\ UNCHANGED <<sp, scan_attention, has_cache, cached_key, cached_value,
                       cache_index, position_ids, sum_L, stepwise, outs>>
        /\ UNCHANGED <<ssm_vars, data_vars, stack_vars>>

Next ==
    \/ \E max_length \in 1 .. MaxLen : InitCache(max_length)
    \/ \E seq_length \in 1 .. MaxQuery, max_length \in 1 .. MaxLen, with_mask \in BOOLEAN :
            PrepareInputs(seq_length, max_length, with_mask)
    \/ \E L \in 1 .. MaxQuery : \E tokens \in TokenSeqs(L),
          args \in CallArguments(L, Size(cached_key)) :
            CallWithCache(tokens, args[1], args[2])
    \/ \E L \in 1 .. MaxQuery : \E tokens \in TokenSeqs(L) : GenerationStep(tokens)
    \/ \E L \in 1 .. MaxQuery : \E tokens \in ForwardTokens(L), am \in ForwardAttentionMasks(L),
          segs \in ForwardSegmentIds(L), fcm \in ForwardFcmMasks(L) :
            Forward(tokens, am, segs, fcm)
    \/ \E L \in 1 .. MaxQuery : CallWithoutPositionIds(ones(L))

Spec == Init /\ [][Next]_vars

\* no decoding session: the cache subsystem stays as constructed
CacheIdle ==
    /\ sp = 1
    /\ scan_attention = FALSE
    /\ has_cache = FALSE
    /\ cached_key = Empty
    /\ cached_value = Empty
    /\ cache_index = 0
    /\ position_ids = Empty
    /\ sum_L = 0
    /\ stepwise = FALSE
    /\ outs = Empty
    /\ last = NoCall

\* ------------------------------------------- the state-space block's calls
InitSSM ==
    /\ CacheIdle
    /\ DIFFERENT_H_STATES_RECURRENT_UPDATE_MECHANISM \in BOOLEAN
    /\ SsmConstructed
    /\ DatasetEmpty
    /\ StackIdle

\* self.h after S6.forward: the call assigns temp_buffer, never self.h
\* variant that stores h_new back into self.h when the switch is on
S6_h_after_Persist(self_h, flag, r) == IF flag /\ r.ok THEN r.h_new ELSE self_h
S6_h_after(self_h, flag, r) == self_h

\* S6.forward(x): self.h is read and never assigned; with the switch on,
\* h_new is copied to the global temp_buffer, which nothing reads
S6Call(x) ==
    \E r \in {S6_forward(S6_h, DIFFERENT_H_STATES_RECURRENT_UPDATE_MECHANISM, x)} :
        /\ ssm' = [op |-> "S6", ok |-> r.ok, x |-> x, y |-> r.y,
                   x_proj |-> Empty, x_conv |-> Empty, sliced |-> r.sliced,
                   temp_buffer |-> IF r.ok /\ DIFFERENT_H_STATES_RECURRENT_UPDATE_MECHANISM
                                   THEN r.h_new ELSE Empty]
        /\ S6_h' = S6_h_after(S6_h, DIFFERENT_H_STATES_RECURRENT_UPDATE_MECHANISM, r)
        /\ UNCHANGED <<DIFFERENT_H_STATES_RECURRENT_UPDATE_MECHANISM,
                       cache_vars, data_vars, stack_vars>>

\* MambaBlock.forward(x)
MambaCall(x) ==
    \E r \in {Mamba_forward(S6_h, DIFFERENT_H_STATES_RECURRENT_UPDATE_MECHANISM, x)} :
        /\ ssm' = [op |-> "Mamba", ok |-> r.ok, x |-> x, y |-> r.y,
                   x_proj |-> r.x_proj, x_conv |-> r.x_conv, sliced |-> r.sliced,
                   temp_buffer |-> IF r.ok /\ DIFFERENT_H_STATES_RECURRENT_UPDATE_MECHANISM
                                   THEN r.h_new ELSE Empty]
        /\ S6_h' = S6_h_after(S6_h, DIFFERENT_H_STATES_RECURRENT_UPDATE_MECHANISM, r)
        /\ UNCHANGED <<DIFFERENT_H_STATES_RECURRENT_UPDATE_MECHANISM,
                       cache_vars, data_vars, stack_vars>>

NextSSM ==
    \/ \E b \in 1 .. MaxBatch, l \in 0 .. MaxInputLen : \E s \in Series(l) :
            S6Call(Input(b, l, d_inner, s))
    \/ \E b \in 1 .. MaxBatch, l \in 0 .. MaxInputLen : \E s \in Series(l) :
            MambaCall(Input(b, l, d_model, s))

SpecSSM == InitSSM /\ [][NextSSM]_vars

\* ------------------------------------------------- the dataset's calls
InitData ==
    /\ CacheIdle
    /\ DIFFERENT_H_STATES_RECURRENT_UPDATE_MECHANISM = FALSE
    /\ SsmConstructed
    /\ DatasetEmpty
    /\ StackIdle

\* PileRandomIODataset(fpaths, max_seq_len, pad_id) over shards of num_rows rows
Construct(counts) ==
    /\ index = Empty /\ item = NoItem
    /\ num_rows' = counts
    /\ \E r \in {IndexAfter(counts, Size(counts))} :
          /\ length' = r.length
          /\ index' = r.index
          /\ index_keys' = r.index_keys
    /\ UNCHANGED <<log, item, cache_vars, ssm_vars, stack_vars>>

\* dataset[idx], the SELECT finding row; the caller's loop ends at the
\* first exception
GetItem(idx, row) ==
    /\ log = << >>
    /\ \E r \in {getitem(num_rows, index, index_keys, idx, row)} :
          /\ item' = r
          /\ log' = log \o r.logged
    /\ UNCHANGED <<num_rows, length, index, index_keys, cache_vars, ssm_vars, stack_vars>>

NextData ==
    \/ \E n \in 1 .. MaxShards : \E counts \in [Rng(n) -> 0 .. MaxRows] :
            Construct(counts)
    \/ \E idx \in (0 - 1) .. (length + 1), row \in RowContents : GetItem(idx, row)

SpecData == InitData /\ [][NextData]_vars

\* ------------------------------------------------- the module's forward call
InitStack ==
    /\ CacheIdle
    /\ DIFFERENT_H_STATES_RECURRENT_UPDATE_MECHANISM = FALSE
    /\ SsmConstructed
    /\ DatasetEmpty
    /\ config \in Configs
    /\ partition_rules = NoRulesCall
    /\ stack = NoStack(config)

\* LLaMAConfig.get_partition_rules(scan_layers, scan_axis)
GetPartitionRules(scan_layers, scan_axis) ==
    /\ \E r \in {get_partition_rules(scan_layers, scan_axis)} :
          partition_rules' = [called |-> TRUE, scan_layers |-> scan_layers,
                              scan_axis |-> scan_axis, raised |-> r.raised,
                              error |-> r.error, rules |-> r.rules]
    /\ UNCHANGED <<config, stack, cache_vars, ssm_vars, data_vars>>

BetweenCalls == stack.pc \in {"idle", "returned", "raised"}

\* a call enters the module: __call__ without past_key_values ("forward"),
\* init_cache(max_length) ("init": input of max_length positions, no cache
\* passed in), or __call__ with the session's past_key_values ("call",
\* position_ids continuing at the cache cursor, inside the rotary table)
StartCall(kind, query_length) ==
    /\ BetweenCalls
    /\ kind = "call" =>
          /\ stack.cache[0].has
          /\ stack.cache[0].ci + query_length <= config.max_sequence_length
    /\ stack' = [pc |-> "wte", kind |-> kind, length |-> query_length,
                 hidden_states |-> << >>,
                 work |-> IF kind = "call" THEN stack.cache ELSE NoLayerCaches(config),
                 cache |-> stack.cache]
    /\ UNCHANGED <<config, partition_rules, cache_vars, ssm_vars, data_vars>>

\* input_embeds = self.wte(input_ids); self.dropout
Embed ==
    /\ stack.pc = "wte"
    /\ stack' = [stack EXCEPT !.pc = StageAfter("wte"),
                              !.hidden_states = wte(stack.length)]
    /\ UNCHANGED <<config, partition_rules, cache_vars, ssm_vars, data_vars>>

\* outputs = self.h(hidden_states, ...); hidden_states = outputs[0]
Blocks ==
    /\ stack.pc = "h"
    /\ IF BlocksOk(config, stack.work, stack.length)
       THEN stack' = [stack EXCEPT
                !.pc = StageAfter("h"),
                !.hidden_states = BlockCollection(config, stack.hidden_states),
                !.work = BlocksOnCache(config, 0, stack.work, stack.length,
                                       stack.kind = "init")]
       ELSE stack' = [stack EXCEPT !.pc = "raised"]
    /\ UNCHANGED <<config, partition_rules, cache_vars, ssm_vars, data_vars>>

\* hidden_states = self.m1(hidden_states), then self.m2, then self.m3
Mamba ==
    /\ stack.pc \in {"m1", "m2", "m3"}
    /\ \E r \in {MambaStage(config, stack.length)} :
          IF r.ok
          THEN stack' = [stack EXCEPT
                   !.pc = StageAfter(stack.pc),
                   !.length = r.length,
                   !.hidden_states = Through(stack.hidden_states, stack.pc, 0 - 1, "own")]
          ELSE stack' = [stack EXCEPT !.pc = "raised"]
    /\ UNCHANGED <<config, partition_rules, cache_vars, ssm_vars, data_vars>>

\* hidden_states = self.final_proj(hidden_states)
FinalProj ==
    /\ stack.pc = "final_proj"
    /\ stack' = [stack EXCEPT
             !.pc = StageAfter("final_proj"),
             !.hidden_states = Through(stack.hidden_states, "final_proj", 0 - 1, "own")]
    /\ UNCHANGED <<config, partition_rules, cache_vars, ssm_vars, data_vars>>

\* hidden_states = self.ln_f(hidden_states)
LnF ==
    /\ stack.pc = "ln_f"
    /\ stack' = [stack EXCEPT
             !.pc = StageAfter("ln_f"),
             !.hidden_states = Through(stack.hidden_states, "ln_f", 0 - 1, "own")]
    /\ UNCHANGED <<config, partition_rules, cache_vars, ssm_vars, data_vars>>

\* lm_logits = self.lm_head(hidden_states), on the tied kernel when
\* config.tie_word_embeddings; the call returns, and with it the cache
\* collection of an init_cache or past_key_values call
LmHead ==
    /\ stack.pc = "lm_head"
    /\ stack' = [stack EXCEPT
             !.pc = StageAfter("lm_head"),
             !.hidden_states = Through(stack.hidden_states, "lm_head", 0 - 1,
                                       lm_head_kernel(config)),
             !.cache = IF stack.kind \in {"init", "call"} THEN stack.work ELSE @]
    /\ UNCHANGED <<config, partition_rules, cache_vars, ssm_vars, data_vars>>

NextStack ==
    \/ \E scan_layers \in BOOLEAN, scan_axis \in (0 - 1) .. MaxScanAxis :
            GetPartitionRules(scan_layers, scan_axis)
    \/ \E kind \in {"forward", "init", "call"}, query_length \in 1 .. MaxQuery :
            StartCall(kind, query_length)
    \/ Embed
    \/ Blocks
    \/ Mamba
    \/ FinalProj
    \/ LnF
    \/ LmHead

SpecStack == InitStack /\ [][NextStack]_vars

\* =============================================================== properties
IncrementalCall == last.op = "call" /\ last.ok
InitCall == last.op \in {"init", "prepare"}
PrevMaxLength == Size(last.prev_key)
Overflowing == last.prev_index + last.L > PrevMaxLength

\* C1: on an initialized cache, cache_index is the sum of the query lengths of
\* the incremental calls made so far; each call advances it by its own
\* query length.
CacheIndexIsSumOfQueryLengths ==
    /\ has_cache => cache_index = sum_L
    /\ IncrementalCall => cache_index = last.prev_index + last.L

CacheIndexSummedOverCalls ==
    /\ IncrementalCall /\ last.L > 1
    /\ last.prev_index > 0
    /\ sum_L = last.prev_index + last.L

\* C2: 0 <= cache_index <= max_length in every state of a decoding session.
CacheIndexWithinMaxLength ==
    has_cache => (0 <= cache_index /\ cache_index <= Size(cached_key))

\* C3: an incremental call with cache_index + L > max_length fails.
OverflowingCallFails ==
    (last.op = "call" /\ Overflowing) => ~last.ok

\* C4: a write past max_length neither overwrites a position below
\* cache_index nor drops the new keys/values while the call succeeds.
OverflowNeverWrapsNorDrops ==
    (IncrementalCall /\ Overflowing) =>
        /\ \A j \in DOMAIN cached_key :
              j < last.prev_index =>
                 /\ cached_key[j] = last.prev_key[j]
                 /\ cached_value[j] = last.prev_value[j]
        /\ \A i \in DOMAIN last.xk :
              \E j \in DOMAIN cached_key :
                 cached_key[j] = last.xk[i] /\ cached_value[j] = last.xv[i]

\* C5: the first call with init_cache on a module without cache variables
\* allocates all-zero key and value buffers of max_length positions and
\* index 0; the call's own keys/values are not written, the index is not
\* advanced.
InitCacheAllocatesZeros ==
    (InitCall /\ last.ok) =>
        /\ has_cache /\ ~last.prev_has
        /\ DOMAIN cached_key = Rng(last.L)
        /\ DOMAIN cached_value = Rng(last.L)
        /\ \A j \in Rng(last.L) :
              cached_key[j] = ZeroKey /\ cached_value[j] = ZeroValue
        /\ cache_index = 0

InitCacheDone ==
    /\ last.op = "init" /\ last.ok /\ last.L >= 2
    /\ \A i \in DOMAIN last.xk : last.xk[i] # ZeroKey

\* C6: an incremental call that fits (cache_index + L <= max_length) stores
\* the new keys/values at positions [cache_index, cache_index + L) and
\* leaves every other position as it was.
WriteLandsAtCacheIndex ==
    (IncrementalCall /\ ~Overflowing) =>
        /\ DOMAIN cached_key = DOMAIN last.prev_key
        /\ DOMAIN cached_value = DOMAIN last.prev_value
        /\ \A j \in DOMAIN cached_key :
              IF j >= last.prev_index /\ j < last.prev_index + last.L
              THEN /\ cached_key[j] = last.xk[j - last.prev_index]
                   /\ cached_value[j] = last.xv[j - last.prev_index]
              ELSE /\ cached_key[j] = last.prev_key[j]
                   /\ cached_value[j] = last.prev_value[j]

MultiTokenWriteAfterOthers ==
    /\ IncrementalCall /\ ~Overflowing
    /\ last.L > 1 /\ last.prev_index > 0

\* C7: in a single-token step with cache_index in [0, max_length), exactly
\* one shard's range predicate holds, that shard alone changes its slice,
\* every other shard returns its slice unchanged.
ExactlyOneShardWrites ==
    (IncrementalCall /\ last.L = 1 /\ last.prev_index < PrevMaxLength) =>
        /\ Cardinality(last.preds) = 1
        /\ last.changed = last.preds
        /\ \A s \in Rng(sp) :
              s \notin last.preds =>
                 /\ ShardSlice(cached_key, s, sp) = ShardSlice(last.prev_key, s, sp)
                 /\ ShardSlice(cached_value, s, sp) = ShardSlice(last.prev_value, s, sp)

\* a multi-token call past max_length that overwrites an earlier position
\* (clamped start index of dynamic_update_slice)
ClampedWriteOverwrites ==
    /\ IncrementalCall /\ Overflowing /\ last.L > 1
    /\ \E j \in DOMAIN cached_key :
          j < last.prev_index /\ cached_key[j] # last.prev_key[j]

SecondShardWrites ==
    /\ IncrementalCall /\ last.L = 1 /\ sp = 2
    /\ last.preds = {1}

\* one prefill call (no cache, default mask and segment ids) over tokens
PrefillCall(tokens) ==
    Attention(NoCache, tokens, arange(0, Size(tokens)), ones(Size(tokens)),
              zeros(Size(tokens), 0), Pairs(Size(tokens), Size(tokens)), FALSE)
DecodedTokens == [t \in DOMAIN outs |-> outs[t].q[1]]
PrefillMatches(r) ==
    (r.ok /\ r.mode = "standard") =>
        outs = AttentionOutput(r, DecodedTokens, arange(0, Size(outs)))

\* C8: decoding N tokens one at a time through the cache gives, at every
\* position t, the result of one prefill call over the N tokens: the query
\* at t attends the keys/values of positions 0..t.
StepwiseDecodeEqualsPrefill ==
    (stepwise /\ Size(outs) > 0) =>
        \A r \in {PrefillCall(DecodedTokens)} : PrefillMatches(r)

\* the same within the cache's capacity (N <= max_length)
StepwiseDecodeEqualsPrefillWithinCapacity ==
    (stepwise /\ Size(outs) > 0 /\ Size(outs) <= Size(cached_key)) =>
        \A r \in {PrefillCall(DecodedTokens)} : PrefillMatches(r)

StandardCall ==
    /\ last.op \in {"call", "forward", "init", "prepare"}
    /\ last.ok /\ last.mode = "standard"
\* position of the call's first query on the key axis
QueryBase == IF last.op = "call" THEN last.prev_index ELSE 0
MaskedIn(j) == last.am[IF Size(last.am) = 1 THEN 0 ELSE j] > 0

\* C9 as stated: in every standard-mode call, query i attends key j only if
\* j is not after i, both carry the same segment id, and attention_mask
\* keeps j.
StandardMaskCausalSegmentedEverywhere ==
    StandardCall =>
        \A p \in last.mask :
            /\ p[2] <= QueryBase + p[1]
            /\ MaskedIn(p[2])
            /\ (p[2] - QueryBase) \in DOMAIN last.segs
                  => last.segs[p[1]] = last.segs[p[2] - QueryBase]

\* C9: in a standard-mode call without a cache, query i attends key j only
\* if j <= i, segment_ids[i] = segment_ids[j] and attention_mask keeps j; in
\* a standard-mode call on an initialized cache, only if
\* j <= cache_index + i and attention_mask keeps j (segment ids are not
\* consulted there).
StandardMaskCausalSegmentedWithoutCache ==
    StandardCall =>
        \A p \in last.mask :
            /\ p[2] <= QueryBase + p[1]
            /\ MaskedIn(p[2])
            /\ last.op # "call" => last.segs[p[1]] = last.segs[p[2]]

PackedSegmentsForward ==
    /\ StandardCall /\ last.op = "forward" /\ last.L >= 2
    /\ last.segs[0] # last.segs[1]
    /\ <<1, 0>> \notin last.mask /\ <<1, 1>> \in last.mask
    /\ last.am = ones(last.L)

\* C10: in an incremental standard-mode call the causal mask is shifted by
\* the cache_index held before the call's write: query i attends cache
\* position j only if j <= cache_index + i, and every attended position has
\* been written by the end of the call.
ShiftedCausalMaskStaysInWrittenPrefix ==
    (IncrementalCall /\ last.mode = "standard") =>
        \A p \in last.mask :
            /\ p[2] <= last.prev_index + p[1]
            /\ cached_key[p[2]] # ZeroKey

ShiftedMaskUsed ==
    /\ IncrementalCall /\ last.mode = "standard"
    /\ last.L >= 2 /\ last.prev_index >= 1
    /\ <<1, last.prev_index + 1>> \in last.mask

\* the inputs of the most recent call, and the pairs each branch of
\* FlaxLLaMAAttention.__call__ lets interact on them (fcm_mask None)
LastKeyLength == IF last.prev_has THEN PrevMaxLength ELSE last.L
LastStandardPairs ==
    StandardMask(last.prev_has, last.L, LastKeyLength, last.am, last.segs,
                 Pairs(last.L, LastKeyLength), last.prev_index)
LastChunkedPairs == RingAttentionPairs(last.L, LastKeyLength, last.am, last.segs)

\* C11: for the same queries, keys, values, attention mask and segment ids
\* the chunked branch and the standard branch let the same (query, key)
\* pairs interact, so that both compute the same attention output.
ChunkedPairsEqualStandardPairs ==
    (last.op # "none" /\ last.ok /\ last.L > ChunkThreshold) =>
        LastStandardPairs = LastChunkedPairs

\* the same for calls made without a cache
ChunkedPairsEqualStandardPairsWithoutCache ==
    (last.op # "none" /\ last.ok /\ last.L > ChunkThreshold /\ ~last.prev_has) =>
        LastStandardPairs = LastChunkedPairs

\* a chunked call on an initialized cache with packed segments
ChunkedCallOnCache ==
    /\ IncrementalCall /\ last.mode = "chunked"
    /\ last.segs[0] # last.segs[1]

\* ------------------------------------------------ state-space block claims
\* the recurrence over the time axis on the discretized coefficients of x:
\* h[t] = dA[t] * h[t-1] + x[t] * dB[t] from h[-1] = 0, y[t] = sum_n C[t] * h[t]
RECURSIVE RecurrenceH(_, _, _, _, _)
RecurrenceH(x, i, t, f, n) ==
    IF t < 0 THEN 0
    ELSE dA(x[i][t], f, n) * RecurrenceH(x, i, t - 1, f, n) + x[i][t][f] * dB(x[i][t], f, n)
RecurrenceY(x, i, t, f) ==
    SumOver([n \in Rng(state_size) |-> S6_C(x[i][t], n) * RecurrenceH(x, i, t, f, n)])
SsmCall == ssm.op \in {"S6", "Mamba"}
FullS6Call == ssm.op = "S6" /\ ssm.ok /\ TimeAxis(ssm.x) = seq_len

\* C12: S6.forward returns the y of the linear recurrence
\* h[t] = dA[t] * h[t-1] + x[t] * dB[t] over the time axis, started from
\* h[-1] = 0, with y[t] = sum over the state dimension of C[t] * h[t].
S6ComputesRecurrence ==
    FullS6Call =>
        \A i \in DOMAIN ssm.x, t \in Rng(seq_len), f \in Rng(d_inner) :
            ssm.y[i][t][f] = RecurrenceY(ssm.x, i, t, f)

\* what S6.forward does return: every time step on its own, from h = 0
S6ComputesEachStepFromZero ==
    FullS6Call =>
        \A i \in DOMAIN ssm.x, t \in Rng(seq_len), f \in Rng(d_inner) :
            ssm.y[i][t][f] =
                SumOver([n \in Rng(state_size) |->
                    S6_C(ssm.x[i][t], n) * ssm.x[i][t][f] * dB(ssm.x[i][t], f, n)])

\* C13: the convolution stage of MambaBlock.forward is causal over the time
\* axis: its output at time t is the same for every input that agrees with
\* the call's input at all times up to t.
ConvStageIsCausal ==
    (ssm.op = "Mamba" /\ ssm.x_conv # Empty) =>
        \A s \in Series(seq_len) : \A t \in Rng(seq_len), i \in DOMAIN ssm.x :
            \A other \in {ProjStage(Input(Size(ssm.x), seq_len, d_model, s))} :
                (\A u \in 0 .. t : other[i][u] = ssm.x_proj[i][u])
                    => ConvStage(other)[i][t] = ssm.x_conv[i][t]

\* C14: when S6.forward runs on a persisted state whose batch size differs
\* from the input's, the call fails or does not use the persisted state; it
\* never cuts the state down (or pads it) to the input's batch size.
BatchMismatchIsSurfaced ==
    (SsmCall /\ Size(ssm.x) # Size(S6_h)) => ~(ssm.ok /\ ssm.sliced)

CumulativeRows(k) == SumUpTo(num_rows, k + 1)
Fetched == item.outcome # "none"
Resolved == Fetched /\ item.failed # "resolve"
Returned == item.outcome = "returned" /\ item.failed = "none"

\* C16: for 0 <= i < total rows, _get_db_and_idx(i) gives the first shard
\* whose cumulative row count exceeds i and the local row id i minus the
\* cumulative count of the preceding shard, which lies in [0, rows of that
\* shard).
ResolveFindsShardAndRow ==
    (Fetched /\ 0 <= item.idx /\ item.idx < length) =>
        /\ Resolved
        /\ CumulativeRows(item.fpath) > item.idx
        /\ \A k \in DOMAIN num_rows : k < item.fpath => CumulativeRows(k) <= item.idx
        /\ item.db_key = item.idx - (IF item.fpath = 0 THEN 0
                                     ELSE CumulativeRows(item.fpath - 1))
        /\ 0 <= item.db_key /\ item.db_key < num_rows[item.fpath]

ResolvedLastRowOfLaterShard ==
    /\ Resolved /\ item.idx = length - 1
    /\ item.fpath >= 1 /\ item.db_key >= 1

\* C17: resolving an index i >= total rows raises; no (shard, row) pair is
\* returned.
OutOfRangeIndexRaises ==
    (Fetched /\ item.idx >= length) =>
        item.failed = "resolve" /\ item.outcome = "raised"

OutOfRangeIndexRaised ==
    /\ Fetched /\ length > 0 /\ item.idx = length
    /\ item.failed = "resolve" /\ item.outcome = "raised"

\* C18: every fetched example has weights of length max_seq_len and tokens
\* of length max_seq_len + 1.
FetchedLengthsAreFixed ==
    Returned =>
        /\ Size(item.weights) = max_seq_len
        /\ Size(item.tokens) = max_seq_len + 1

\* the same for rows that fit: at most max_seq_len + 1 tokens and
\* 1 <= pred_start <= len(tokens)
FetchedLengthsAreFixedWhenRowFits ==
    (Returned /\ item.n_tokens <= max_seq_len + 1
        /\ 1 <= item.pred_start /\ item.pred_start <= item.n_tokens) =>
        /\ Size(item.weights) = max_seq_len
        /\ Size(item.tokens) = max_seq_len + 1

\* C19: weights[j] weighs the prediction of token j + 1; it is 1 exactly
\* when pred_start <= j + 1 <= len(tokens) - 1 and 0 before pred_start and
\* on padding; there are never more than len(tokens) - 1 ones.
WeightsCoverLossRange ==
    Returned =>
        /\ \A j \in DOMAIN item.weights :
              item.weights[j] =
                 IF item.pred_start <= j + 1 /\ j + 1 <= item.n_tokens - 1 THEN 1 ELSE 0
        /\ Cardinality({j \in DOMAIN item.weights : item.weights[j] = 1})
              <= item.n_tokens - 1

\* the same for rows whose pred_start is at least 1
WeightsCoverLossRangeFromOne ==
    (Returned /\ item.pred_start >= 1) =>
        /\ \A j \in DOMAIN item.weights :
              item.weights[j] =
                 IF item.pred_start <= j + 1 /\ j + 1 <= item.n_tokens - 1 THEN 1 ELSE 0
        /\ Cardinality({j \in DOMAIN item.weights : item.weights[j] = 1})
              <= item.n_tokens - 1

LoggedWith(field) == \E k \in DOMAIN log : \E e \in log[k] : e[1] = field
\* C20 as stated: a failure while resolving, reading, decompressing or
\* parsing is logged with the global index and (once the index is resolved)
\* the shard, and re-raised; no substitute example is returned.
FailureLoggedWithIndexAndShard ==
    (Fetched /\ item.failed # "none") =>
        /\ item.outcome = "raised"
        /\ \E k \in DOMAIN log : <<"idx", item.idx>> \in log[k]
        /\ item.failed # "resolve" => LoggedWith("shard")

\* C20: a failure while resolving, reading, decompressing or parsing is
\* logged with the global index and re-raised; __getitem__ returns an
\* example only when no step failed.
FailureLoggedWithIndexAndReraised ==
    /\ (Fetched /\ item.failed # "none") =>
          /\ item.outcome = "raised"
          /\ item.tokens = Empty /\ item.weights = Empty
          /\ \E k \in DOMAIN log : <<"idx", item.idx>> \in log[k]
    /\ item.outcome = "returned" => item.failed = "none"

DecompressFailureRaised ==
    /\ Fetched /\ item.failed = "decompress" /\ item.outcome = "raised"
    /\ item.fpath >= 1

\* ------------------------------------------------- configuration claims
RulesCall == partition_rules.called
InvalidAxisCall == RulesCall /\ partition_rules.scan_axis \notin {0, 1}

\* C21 as stated: get_partition_rules raises for every scan_axis outside
\* {0, 1} and returns no rule set then.
InvalidScanAxisAlwaysRaises ==
    InvalidAxisCall =>
        /\ partition_rules.raised
        /\ partition_rules.error = InvalidScanAxis(partition_rules.scan_axis)
        /\ partition_rules.rules = << >>

\* C21: with scan_layers set, get_partition_rules raises ValueError naming
\* the scan_axis for every scan_axis outside {0, 1} and returns no rule set;
\* without scan_layers it does not look at scan_axis and returns the
\* unscanned rules.
InvalidScanAxisRaisesWhenScanning ==
    /\ (InvalidAxisCall /\ partition_rules.scan_layers) =>
          /\ partition_rules.raised
          /\ partition_rules.error = InvalidScanAxis(partition_rules.scan_axis)
          /\ partition_rules.rules = << >>
    /\ (RulesCall /\ ~partition_rules.scan_layers) =>
          /\ ~partition_rules.raised
          /\ partition_rules.rules = UnscannedRules
    /\ (RulesCall /\ ~partition_rules.raised /\ partition_rules.scan_layers) =>
          partition_rules.rules =
              IF partition_rules.scan_axis = 0 THEN ScanAxis0Rules ELSE ScanAxis1Rules

InvalidScanAxisRaised ==
    /\ InvalidAxisCall /\ partition_rules.scan_layers
    /\ partition_rules.scan_axis > 1
    /\ partition_rules.raised

\* --------------------------------------------------- layer stack claims
NumLayers == config.num_hidden_layers
BlocksDone == stack.pc \in {"m1", "m2", "m3", "final_proj", "ln_f", "lm_head", "returned"}
HiddenLayers == {k \in DOMAIN stack.hidden_states : stack.hidden_states[k].stage = "block"}

\* C23: the hidden states leaving FlaxLLaMABlockCollection are the embedded
\* input taken through the block of layer 0, 1, .., num_hidden_layers - 1 in
\* this order, each once, and the scanned and the unrolled collection give
\* the same hidden states on the same input.
BlocksAppliedInLayerOrder ==
    BlocksDone =>
        /\ HiddenLayers = 2 .. (NumLayers + 1)
        /\ \A k \in HiddenLayers :
              stack.hidden_states[k] = Stage("block", k - 2, "params")
        /\ \A input \in {SubSeq(stack.hidden_states, 1, 1)} :
              BlockCollection([config EXCEPT !.scan_layers = TRUE], input)
                  = BlockCollection([config EXCEPT !.scan_layers = FALSE], input)

ScannedStackOfTwoDone ==
    /\ BlocksDone /\ config.scan_layers /\ NumLayers >= 2
    /\ Len(stack.hidden_states) >= 3

\* the stages of a whole forward call, in order
ExpectedStages ==
    <<"wte">> \o [k \in 1 .. NumLayers |-> "block"]
              \o <<"m1", "m2", "m3", "final_proj", "ln_f", "lm_head">>
StagesRun == [k \in DOMAIN stack.hidden_states |-> stack.hidden_states[k].stage]

\* C24: the stages a forward call has run are always an initial part of
\* wte, the num_hidden_layers blocks, m1, m2, m3, final_proj, ln_f, lm_head
\* (so each runs at most once and no Mamba stage precedes a block); a call
\* that returns has run all of them, lm_head on the transposed embedding
\* exactly when tie_word_embeddings is set.
StagesRunInOrder ==
    /\ Len(StagesRun) <= Len(ExpectedStages)
    /\ StagesRun = SubSeq(ExpectedStages, 1, Len(StagesRun))
    /\ stack.pc = "returned" =>
          /\ StagesRun = ExpectedStages
          /\ stack.hidden_states[Len(stack.hidden_states)].param =
                IF config.tie_word_embeddings THEN "wte.embedding.T"
                ELSE "lm_head.kernel"

TiedCallReturned ==
    /\ stack.pc = "returned" /\ config.tie_word_embeddings
    /\ NumLayers >= 2

\* C27: between calls every layer of the session's cache collection holds
\* the same cache_index (all absent, or all present with one value), and so
\* do the layers' working copies once the block collection has run.
AllLayersAt(cache) ==
    \A i, j \in DOMAIN cache :
        cache[i].has = cache[j].has /\ cache[i].ci = cache[j].ci
LayerCacheIndicesAgree ==
    /\ AllLayersAt(stack.cache)
    /\ BlocksDone => AllLayersAt(stack.work)

LayersAdvancedTogether ==
    /\ stack.pc = "returned" /\ stack.kind = "call"
    /\ NumLayers >= 2
    /\ stack.cache[0].ci >= 2 /\ stack.cache[1].ci >= 2

\* ------------------------------------------------ attention mode selection
\* a call that went through FlaxLLaMAAttention.__call__
AttentionCalled == last.op \in {"init", "prepare", "call", "forward"}

\* C22 as stated: a call uses the chunked branch exactly when its query is
\* longer than the chunk threshold, whatever the configuration.
ModeSelectedByLengthAlone ==
    AttentionCalled => (last.mode = "chunked" <=> last.L > ChunkThreshold)

\* C22: with scan_attention set, a call uses the chunked branch exactly when
\* its query is longer than the chunk threshold and the standard branch
\* exactly when it is at most the threshold; without scan_attention every
\* call uses the standard branch.
ModeSelectedByLengthWhenScanning ==
    AttentionCalled =>
        (last.mode = "chunked" <=> (scan_attention /\ last.L > ChunkThreshold))

\* a call without a cache, longer than the threshold, takes the chunked branch
LongForwardChunked ==
    /\ last.op = "forward" /\ last.ok /\ scan_attention
    /\ last.L > ChunkThreshold /\ last.mode = "chunked"

\* ------------------------------------------- the recurrence state of S6
\* what S6.forward returns for x when it starts from the all-zero h
FromZeroState(x) ==
    S6_forward(S6_h_constructed, DIFFERENT_H_STATES_RECURRENT_UPDATE_MECHANISM, x)
MambaFromZeroState(x) ==
    Mamba_forward(S6_h_constructed, DIFFERENT_H_STATES_RECURRENT_UPDATE_MECHANISM, x)

GenerationStepDone == last.op = "call" /\ position_ids # Empty

\* C26: in a generation session started by prepare_inputs_for_generation
\* (prefill, then single-token steps via update_inputs_for_generation) the
\* position ids passed to each step start at the cache_index held before
\* that step, and the position kept for the next step is the cache_index
\* held now.
PositionIdsFollowCacheIndex ==
    /\ GenerationStepDone =>
            \A i \in DOMAIN last.pos : last.pos[i] = last.prev_index + i
    /\ (has_cache /\ position_ids # Empty) => position_ids[0] = cache_index

\* a single-token step after a prefill of at least two tokens
ThirdTokenGenerated ==
    /\ GenerationStepDone /\ last.ok /\ last.L = 1
    /\ last.prev_index >= 2 /\ last.pos[0] = last.prev_index
    /\ position_ids[0] = last.prev_index + 1

\* ------------------------------------ the sharded write as a plain write
\* the full buffer with sequence position cur_index replaced by the new entry
UnshardedWrite(cached, new, cur_index) ==
    [j \in DOMAIN cached |-> IF j = cur_index THEN new[Size(new) - 1] ELSE cached[j]]

\* C29: for every cache_index in [0, max_length) and every shard count the
\* single-token step leaves, as the concatenation of the shards' slices,
\* the previous full buffer with position cache_index replaced by the new
\* key/value and every other position unchanged.
ShardedWriteEqualsUnshardedWrite ==
    (IncrementalCall /\ last.L = 1 /\ last.prev_index < PrevMaxLength) =>
        /\ cached_key = UnshardedWrite(last.prev_key, last.xk, last.prev_index)
        /\ cached_value = UnshardedWrite(last.prev_value, last.xv, last.prev_index)
        /\ \A s \in Rng(sp) :
              /\ ShardSlice(cached_key, s, sp) =
                    ShardFn(last.prev_key, last.xk, last.prev_index, s, sp)
              /\ ShardSlice(cached_value, s, sp) =
                    ShardFn(last.prev_value, last.xv, last.prev_index, s, sp)

\* a single-token step over two shards that writes a position after
\* earlier ones were filled
ShardedStepWritesOnePosition ==
    /\ IncrementalCall /\ last.L = 1 /\ sp = 2
    /\ last.prev_index >= 1 /\ last.prev_index < PrevMaxLength
    /\ cached_key[last.prev_index] = last.xk[0]
    /\ cached_key[last.prev_index] # last.prev_key[last.prev_index]
    /\ cached_key[0] = last.prev_key[0] /\ cached_key[0] # ZeroKey

\* ------------------------------------------ calls that leave the cache alone
\* the session's cache variables
session_cache == <<has_cache, cached_key, cached_value, cache_index>>
\* the cache collection the last call was given
GivenCache == [has |-> last.prev_has, ck |-> last.prev_key, cv |-> last.prev_value,
               ci |-> last.prev_index]

ForwardReturnsNoCache ==
    last.op = "forward" => (GivenCache = NoCache /\ last.out = NoCache)
CallWithoutPositionIdsRejected ==
    last.op = "nopos" =>
        /\ ~last.ok /\ ~last.ran
        /\ last.out = GivenCache /\ SessionCache = GivenCache
CacheLeftAlone ==
    last'.op \in {"forward", "nopos"} => UNCHANGED session_cache

\* C30: a call of FlaxLLaMAPreTrainedModel.__call__ without past_key_values
\* neither creates nor mutates a cache and returns none; a call with
\* past_key_values and without position_ids is stopped before the module
\* runs and leaves the cache it was given unchanged.
CacheUntouchedByForwardAndRejectedCalls ==
    /\ [](ForwardReturnsNoCache /\ CallWithoutPositionIdsRejected)
    /\ [][CacheLeftAlone]_vars

\* a call without position_ids is rejected in the middle of a decoding
\* session that has already cached tokens
RejectedInSession ==
    /\ last.op = "nopos" /\ ~last.ok /\ has_cache
    /\ cache_index >= 1 /\ cached_key[0] # ZeroKey

\* ------------------------------------------------ the shard connections
\* C28: every connection __getitem__ opens is closed by the time the call
\* ends, whether the call returns an example or raises.
ConnectionsClosedAfterFetch ==
    item.outcome # "none" => item.conn # "open"

====
